---- MODULE Spec2Model ----
(***************************************************************************)
(* Model of max_prisoner.py: the body-simulation blob patcher              *)
(* (update_body_sim), the prisoner accessors (load_prisoner,               *)
(* save_prisoner), the skill updater (update_skills) and the linear run of *)
(* main.                                                                   *)
(*                                                                         *)
(* Bytes are the integers 0..255 and a blob is a sequence of bytes.  TLA+  *)
(* sequences are 1-based; every offset below is a 0-based Python offset.   *)
(* A float value is represented by the integer it equals (8.0 is 8).       *)
(***************************************************************************)
EXTENDS Integers, Sequences, FiniteSets, TLC

VARIABLES
    \* one call of update_body_sim, save_prisoner
    body_sim,       \* the mutable bytearray handed to update_body_sim
    before,         \* the content of body_sim when the call started
    key,            \* argument key of update_body_sim
    value,          \* argument value of update_body_sim
    property_type,  \* argument property_type of update_body_sim
    outcome,        \* "none" before the call, then "ok" or the exception raised
    \* the run of main
    pc,             \* the statement of main that runs next
    disk,           \* the committed content of SCUM.db
    disk0,          \* the committed content of SCUM.db when the run started
    conn,           \* the database as the connection sees it (its open transaction)
    backup,         \* "none", "done" or "failed": the shutil.copy of main
    writes,         \* the writing statements issued on the connection, in order
    commits,        \* number of con.commit() calls completed
    prisoner_id,    \* what choose_prisoner returned
    prisoner,       \* the dict load_prisoner returned
    attr,           \* index in SET_ATTRIBUTES of the next attribute to patch
    rowcount,       \* rowcount of the cursor save_prisoner returned
    skills_done,    \* update_skills has returned
    err,            \* the exception that ended the run, "" while there is none
    failedAt        \* the statement of main that raised it

patchVars == <<before, key, value, property_type, outcome>>
mainVars == <<pc, disk, disk0, conn, backup, writes, commits, prisoner_id, prisoner,
              attr, rowcount, skills_done, err, failedAt>>
vars == <<body_sim, patchVars, mainVars>>

----------------------------------------------------------------------------
(* Program constants *)

BODY_SIM_KEY_PADDING == 5
BODY_SIM_VALUE_PADDING == 10

DoubleProperty ==
    [name |-> <<68, 111, 117, 98, 108, 101, 80, 114, 111, 112, 101, 114, 116, 121>>,
     width |-> 8, struct_type |-> "<d"]
FloatProperty ==
    [name |-> <<70, 108, 111, 97, 116, 80, 114, 111, 112, 101, 114, 116, 121>>,
     width |-> 4, struct_type |-> "<f"]
BoolProperty ==
    [name |-> <<66, 111, 111, 108, 80, 114, 111, 112, 101, 114, 116, 121>>,
     width |-> 1, struct_type |-> "<?"]

PropertyType == {DoubleProperty, FloatProperty, BoolProperty}

\* attribute.encode("ascii") of the four keys of SET_ATTRIBUTES
BaseStrength == <<66, 97, 115, 101, 83, 116, 114, 101, 110, 103, 116, 104>>
BaseConstitution ==
    <<66, 97, 115, 101, 67, 111, 110, 115, 116, 105, 116, 117, 116, 105, 111, 110>>
BaseDexterity == <<66, 97, 115, 101, 68, 101, 120, 116, 101, 114, 105, 116, 121>>
BaseIntelligence ==
    <<66, 97, 115, 101, 73, 110, 116, 101, 108, 108, 105, 103, 101, 110, 99, 101>>

\* SET_ATTRIBUTES.items(), in insertion order
SET_ATTRIBUTES ==
    << [key |-> BaseStrength, value |-> 8],
       [key |-> BaseConstitution, value |-> 5],
       [key |-> BaseDexterity, value |-> 5],
       [key |-> BaseIntelligence, value |-> 5] >>

\* the keys of SET_SKILLS
ConfiguredSkills ==
    {
     "BoxingSkill", "AwarenessSkill", "RiflesSkill", "SnipingSkill",
     "CamouflageSkill", "SurvivalSkill", "MeleeWeaponsSkill", "HandgunSkill",
     "RunningSkill", "EnduranceSkill", "TacticsSkill", "CookingSkill",
     "ThieverySkill", "ArcherySkill", "DrivingSkill", "EngineeringSkill",
     "DemolitionSkill", "MedicalSkill", "MotorcycleSkill", "StealthSkill",
     "AviationSkill", "ResistanceSkill", "FarmingSkill"
    }

\* SET_SKILLS: skill name -> (level, experience)
SET_SKILLS == [n \in ConfiguredSkills |-> <<3, 10000000>>]

----------------------------------------------------------------------------
(* struct.pack for the three struct_type formats *)

Min(a, b) == IF a < b THEN a ELSE b
Max(a, b) == IF a > b THEN a ELSE b

RECURSIVE Pow2(_)
Pow2(n) == IF n = 0 THEN 1 ELSE 2 * Pow2(n - 1)

RECURSIVE FloorLog2(_)
FloorLog2(n) == IF n < 2 THEN 0 ELSE 1 + FloorLog2(n \div 2)

\* the w low bits of n, most significant first
Bits(n, w) == [i \in 1..w |-> (n \div Pow2(w - i)) % 2]

Zeros(w) == [i \in 1..w |-> 0]

\* IEEE 754 binary image (sign, exponent, fraction; most significant bit
\* first) of the integer n, rounded to nearest, ties to even, when n has more
\* significant bits than the fraction holds.
IeeeBits(n, expBits, fracBits, bias) ==
    LET sign == IF n < 0 THEN 1 ELSE 0
        m    == IF n < 0 THEN -n ELSE n
        e    == FloorLog2(m)
    IN  IF m = 0 THEN <<sign>> \o Zeros(expBits + fracBits)
        ELSE IF e <= fracBits
        THEN <<sign>> \o Bits(e + bias, expBits)
                      \o Bits(m - Pow2(e), e) \o Zeros(fracBits - e)
        ELSE LET shift == e - fracBits
                 q     == m \div Pow2(shift)
                 r     == m % Pow2(shift)
                 half  == Pow2(shift - 1)
                 up    == r > half \/ (r = half /\ q % 2 = 1)
                 q2    == IF up THEN q + 1 ELSE q
             IN  IF q2 = Pow2(fracBits + 1)
                 THEN <<sign>> \o Bits(e + 1 + bias, expBits) \o Zeros(fracBits)
                 ELSE <<sign>> \o Bits(e + bias, expBits)
                               \o Bits(q2 - Pow2(fracBits), fracBits)

ByteAt(bits, k) ==
    LET b == SubSeq(bits, 8 * k + 1, 8 * k + 8)
    IN  128 * b[1] + 64 * b[2] + 32 * b[3] + 16 * b[4]
        + 8 * b[5] + 4 * b[6] + 2 * b[7] + b[8]

\* "<": little-endian, the least significant byte first
LittleEndian(bits) ==
    LET n == Len(bits) \div 8
    IN  [i \in 1..n |-> ByteAt(bits, n - i)]

struct_pack(struct_type, v) ==
    CASE struct_type = "<d" -> LittleEndian(IeeeBits(v, 11, 52, 1023))
      [] struct_type = "<f" -> LittleEndian(IeeeBits(v, 8, 23, 127))
      [] struct_type = "<?" -> << IF v # 0 THEN 1 ELSE 0 >>

----------------------------------------------------------------------------
(* bytearray operations used by update_body_sim *)

index_NoRaise(buf, k) ==
    LET hits == {i \in 0..(Len(buf) - Len(k)) : SubSeq(buf, i + 1, i + Len(k)) = k}
    IN  IF hits = {} THEN 0
        ELSE CHOOSE i \in hits : \A j \in hits : i <= j

\* body_sim.index(key): the first offset at which key occurs; -1 stands for
\* the ValueError raised when it occurs nowhere.
index(buf, k) ==
    LET hits == {i \in 0..(Len(buf) - Len(k)) : SubSeq(buf, i + 1, i + Len(k)) = k}
    IN  IF hits = {} THEN -1
        ELSE CHOOSE i \in hits : \A j \in hits : i <= j

\* buf[a:b] for 0 <= a <= b: both ends are clipped to len(buf)
Slice(buf, a, b) == SubSeq(buf, Min(a, Len(buf)) + 1, Min(b, Len(buf)))

\* buf[a:b] = v for 0 <= a <= b: the clipped slice is replaced by all of v,
\* whatever its length
SliceAssign(buf, a, b, v) ==
    LET lo == Min(a, Len(buf))
        hi == Max(lo, Min(b, Len(buf)))
    IN  SubSeq(buf, 1, lo) \o v \o SubSeq(buf, hi + 1, Len(buf))

\* offset of the type name behind the first occurrence of key
TypeOffset(key_offset, k) == key_offset + Len(k) + BODY_SIM_KEY_PADDING

\* value_offset of update_body_sim
ValueOffset(key_offset, k, pt) ==
    key_offset + Len(k) + BODY_SIM_KEY_PADDING + Len(pt.name) + BODY_SIM_VALUE_PADDING

TypeNameMatches_Unchecked(buf, key_offset, k, pt) == TRUE

\* the condition of the assert statement
TypeNameMatches(buf, key_offset, k, pt) ==
    Slice(buf, TypeOffset(key_offset, k), TypeOffset(key_offset, k) + Len(pt.name))
        = pt.name

update_body_sim(buf, k, v, pt) ==
    LET key_offset == index(buf, k)
    IN  IF key_offset = -1
        THEN [outcome |-> "ValueError", body_sim |-> buf]
        ELSE IF ~TypeNameMatches(buf, key_offset, k, pt)
        THEN [outcome |-> "AssertionError", body_sim |-> buf]
        ELSE LET value_offset == ValueOffset(key_offset, k, pt)
                 value_bytes  == struct_pack(pt.struct_type, v)
             IN  [outcome |-> "ok",
                  body_sim |-> SliceAssign(buf, value_offset,
                                           value_offset + pt.width, value_bytes)]

----------------------------------------------------------------------------
(* The database: table prisoner (id -> body_simulation; the other columns
   are never read or written) and table prisoner_skill (at most one row per
   prisoner_id and name, NoRow where there is none; a row is
   (level, experience)) *)

NoRow == <<>>
NoConn == [prisoner |-> <<>>, prisoner_skill |-> <<>>]
NoPrisoner == [id |-> 0, body_simulation |-> <<>>]

\* load_prisoner: cur.fetchone() is None when no row has the id, and
\* zip(cur.description, None) raises TypeError
load_prisoner(con, id) ==
    IF id \in DOMAIN con.prisoner
    THEN [outcome |-> "ok",
          result |-> [id |-> id, body_simulation |-> con.prisoner[id]]]
    ELSE [outcome |-> "TypeError", result |-> NoPrisoner]

\* save_prisoner: UPDATE prisoner SET body_simulation = ? WHERE id = ?; the
\* cursor is returned whatever its rowcount
save_prisoner(con, p) ==
    LET hit == {i \in DOMAIN con.prisoner : i = p.id}
    IN  [outcome |-> "ok",
         rowcount |-> Cardinality(hit),
         con |-> [con EXCEPT !.prisoner =
                     [i \in DOMAIN con.prisoner |->
                         IF i \in hit THEN p.body_simulation ELSE con.prisoner[i]]]]

\* SELECT name FROM prisoner_skill WHERE prisoner_id = ?, in table order
SelectSkillNames(con, id, order) ==
    SelectSeq(order, LAMBDA n : /\ <<id, n>> \in DOMAIN con.prisoner_skill
                                /\ con.prisoner_skill[<<id, n>>] # NoRow)

UpdateSkillRow_AnyPrisoner(con, id, name, row) ==
    [con EXCEPT !.prisoner_skill =
        [k \in DOMAIN con.prisoner_skill |->
            IF k[2] = name /\ con.prisoner_skill[k] # NoRow
            THEN row ELSE con.prisoner_skill[k]]]

\* UPDATE prisoner_skill SET level = ?, experience = ?
\*   WHERE prisoner_id = ? AND name = ?
UpdateSkillRow(con, id, name, row) ==
    [con EXCEPT !.prisoner_skill =
        [k \in DOMAIN con.prisoner_skill |->
            IF k[1] = id /\ k[2] = name /\ con.prisoner_skill[k] # NoRow
            THEN row ELSE con.prisoner_skill[k]]]

\* the loop of update_skills over the selected names
RECURSIVE UpdateSkillsLoop(_, _, _)
UpdateSkillsLoop(con, id, names) ==
    IF names = <<>> THEN con
    ELSE LET name == Head(names)
         IN  IF name \notin DOMAIN SET_SKILLS
             THEN UpdateSkillsLoop(con, id, Tail(names))
             ELSE UpdateSkillsLoop(UpdateSkillRow(con, id, name, SET_SKILLS[name]),
                                   id, Tail(names))

update_skills(con, p, order) ==
    UpdateSkillsLoop(con, p.id, SelectSkillNames(con, p.id, order))

----------------------------------------------------------------------------
(* Blobs the patcher is applied to *)

MaxFields == 2      \* fields in a generated blob
MaxTrim == 20       \* bytes cut off the end of a generated blob

Pad(n, b) == [i \in 1..n |-> b]

\* one field as the game lays it out:
\* name, padding(5), type name, padding(10), value
FieldBytes(name, pt, v) ==
    name \o Pad(BODY_SIM_KEY_PADDING, 170) \o pt.name
         \o Pad(BODY_SIM_VALUE_PADDING, 187) \o struct_pack(pt.struct_type, v)

RECURSIVE Concat(_)
Concat(ss) == IF ss = <<>> THEN <<>> ELSE Head(ss) \o Concat(Tail(ss))

FieldChoices == [name : {BaseStrength, BaseConstitution}, type : PropertyType]

Layouts == UNION {[1..n -> FieldChoices] : n \in 0..MaxFields}

LayoutBytes(fs) == Concat([i \in 1..Len(fs) |-> FieldBytes(fs[i].name, fs[i].type, 1)])

Trimmed(buf, t) == SubSeq(buf, 1, Max(0, Len(buf) - t))

\* b"Base": a key that occurs inside every field name
BasePrefix == <<66, 97, 115, 101>>

PatchKeys == {BaseStrength, BasePrefix}
PatchValues == {0, 8, 16777217}

\* the run of main is not part of a specification of single calls
MainIdle ==
    /\ pc = "idle"
    /\ disk = NoConn /\ disk0 = NoConn /\ conn = NoConn
    /\ backup = "none" /\ writes = <<>> /\ commits = 0
    /\ prisoner_id = 0 /\ prisoner = NoPrisoner
    /\ attr = 1 /\ rowcount = -1 /\ skills_done = FALSE
    /\ err = "" /\ failedAt = ""

InitPatch ==
    /\ MainIdle
    /\ \E fs \in Layouts, t \in 0..MaxTrim : body_sim = Trimmed(LayoutBytes(fs), t)
    /\ before = body_sim
    /\ key \in PatchKeys
    /\ value \in PatchValues
    /\ property_type \in PropertyType
    /\ outcome = "none"

CallUpdateBodySim ==
    /\ outcome = "none"
    /\ LET r == update_body_sim(body_sim, key, value, property_type)
       IN  /\ outcome' = r.outcome
           /\ body_sim' = r.body_sim
    /\ UNCHANGED <<before, key, value, property_type, mainVars>>

NextPatch == CallUpdateBodySim

SpecPatch == InitPatch /\ [][NextPatch]_vars

----------------------------------------------------------------------------
(* Properties of update_body_sim, under SpecPatch *)

Called == outcome # "none"

\* key occurs as a contiguous byte sequence somewhere in buf
Occurs(k, buf) ==
    \E i \in 0..(Len(buf) - Len(k)) : \A j \in 1..Len(k) : buf[i + j] = k[j]

\* the 0-based offset of the first occurrence of k in buf
FirstOccurrence(k, buf) ==
    CHOOSE i \in 0..(Len(buf) - Len(k)) :
        /\ \A j \in 1..Len(k) : buf[i + j] = k[j]
        /\ \A h \in 0..(i - 1) : \E j \in 1..Len(k) : buf[h + j] # k[j]

\* start of the value window of the call, computed on the pre-call buffer
WindowStart ==
    FirstOccurrence(key, before) + Len(key) + 5 + Len(property_type.name) + 10

\* the bytes of buf at the 0-based offsets lo .. hi-1 that exist
BytesAt(buf, lo, hi) ==
    [i \in 1..(Min(hi, Len(buf)) - Min(lo, Len(buf))) |-> buf[Min(lo, Len(buf)) + i]]

\* the type name is found, in full, 5 bytes behind the first occurrence of key
TagPresent ==
    LET s == FirstOccurrence(key, before) + Len(key) + 5
        n == property_type.name
    IN  /\ s + Len(n) <= Len(before)
        /\ \A j \in 1..Len(n) : before[s + j] = n[j]

\* C1: every call of update_body_sim leaves the length of body_sim as it
\* was, also when the buffer ends before the end of the value window.
C1_LengthUnchanged == Called => Len(body_sim) = Len(before)

\* C2: after a successful call every byte at an index outside the value
\* window [value_offset, value_offset + width) is the byte that was at that
\* index before the call.
C2_OutsideWindowUnchanged ==
    outcome = "ok" =>
        \A i \in 0..(Max(Len(before), Len(body_sim)) - 1) :
            (i < WindowStart \/ i >= WindowStart + property_type.width) =>
                /\ i < Len(before)
                /\ i < Len(body_sim)
                /\ body_sim[i + 1] = before[i + 1]

\* C3: when the bytes 5 behind the first occurrence of key are not the
\* requested type's name, the call fails (AssertionError) and the buffer is
\* byte for byte what it was.
C3_TypeMismatchRejected ==
    (Called /\ Occurs(key, before) /\ ~TagPresent) =>
        (outcome = "AssertionError" /\ body_sim = before)

C3_Witness ==
    /\ outcome = "AssertionError"
    /\ Occurs(key, before)
    /\ ~TagPresent
    /\ Len(before) >= Len(key) + 5 + Len(property_type.name) + 10 + property_type.width

\* C4: when key occurs nowhere in the buffer, the call fails (ValueError)
\* and the buffer is byte for byte what it was.
C4_MissingKeyRejected ==
    (Called /\ ~Occurs(key, before)) =>
        (outcome = "ValueError" /\ body_sim = before)

C4_Witness ==
    /\ outcome = "ValueError"
    /\ ~Occurs(key, before)
    /\ Len(before) > Len(key)

\* C9: after a successful call the width bytes of the value window are the
\* type's encoding of value; and the blob BaseStrength, 5 padding bytes,
\* DoubleProperty, 10 padding bytes, encoding of 1.0 patched to 8.0 is that
\* blob with the 8-byte window holding the encoding of 8.0.
C9_WindowHoldsEncoding ==
    /\ outcome = "ok" =>
           BytesAt(body_sim, WindowStart, WindowStart + property_type.width)
               = struct_pack(property_type.struct_type, value)
    /\ (/\ Called
        /\ before = FieldBytes(BaseStrength, DoubleProperty, 1)
        /\ key = BaseStrength /\ value = 8 /\ property_type = DoubleProperty) =>
           body_sim = FieldBytes(BaseStrength, DoubleProperty, 8)

----------------------------------------------------------------------------
(* The run of main *)

PrisonerIds == {1, 2}
\* ids that can be typed at the prompt: those listed and one of no prisoner
InputIds == PrisonerIds \cup {3}

\* names of prisoner_skill rows, in table order; the last is a skill that
\* SET_SKILLS does not configure
SkillOrder == <<"BoxingSkill", "AwarenessSkill", "UnlistedSkill">>
SkillNames == {SkillOrder[i] : i \in 1..Len(SkillOrder)}

AttributeFields(pt2) ==
    << [name |-> BaseStrength, type |-> DoubleProperty],
       [name |-> BaseConstitution, type |-> pt2],
       [name |-> BaseDexterity, type |-> DoubleProperty],
       [name |-> BaseIntelligence, type |-> DoubleProperty] >>

\* body_simulation blobs found in the database: all four attributes as the
\* game writes them; one attribute missing; one attribute of another type;
\* the blob cut inside its last value
GoodBlob == LayoutBytes(AttributeFields(DoubleProperty))
MissingFieldBlob ==
    LayoutBytes(SelectSeq(AttributeFields(DoubleProperty),
                          LAMBDA f : f.name # BaseDexterity))
WrongTypeBlob == LayoutBytes(AttributeFields(FloatProperty))
TruncatedBlob == Trimmed(GoodBlob, 4)

Blobs == {GoodBlob, MissingFieldBlob, WrongTypeBlob, TruncatedBlob}

Databases ==
    [prisoner : [PrisonerIds -> Blobs],
     prisoner_skill : [PrisonerIds \X SkillNames -> {NoRow, <<1, 100>>}]]

PatchIdle ==
    /\ before = <<>> /\ key = <<>> /\ value = 0
    /\ property_type = DoubleProperty /\ outcome = "none"

Init ==
    /\ PatchIdle
    /\ body_sim = <<>>
    /\ pc = "backup"
    /\ disk \in Databases
    /\ disk0 = disk
    /\ conn = NoConn
    /\ backup = "none" /\ writes = <<>> /\ commits = 0
    /\ prisoner_id = 0 /\ prisoner = NoPrisoner
    /\ attr = 1 /\ rowcount = -1 /\ skills_done = FALSE
    /\ err = "" /\ failedAt = ""

\* an exception leaves main; the handlers under __main__ print it and the
\* process ends with the transaction still open
Raise(e) ==
    /\ pc' = "failed"
    /\ err' = e
    /\ failedAt' = pc

BackupDatabase_IgnoreFailure ==
    /\ pc = "backup"
    /\ \/ backup' = "done"
       \/ backup' = "failed"
    /\ pc' = "connect"
    /\ UNCHANGED <<body_sim, patchVars, disk, disk0, conn, writes, commits,
                   prisoner_id, prisoner, attr, rowcount, skills_done, err, failedAt>>

\* shutil.copy(DB_PATH, backup_path): it copies the file or raises OSError
BackupDatabase ==
    /\ pc = "backup"
    /\ \/ /\ backup' = "done"
          /\ pc' = "connect"
          /\ UNCHANGED <<err, failedAt>>
       \/ /\ backup' = "failed"
          /\ Raise("OSError")
    /\ UNCHANGED <<body_sim, patchVars, disk, disk0, conn, writes, commits,
                   prisoner_id, prisoner, attr, rowcount, skills_done>>

\* con = sqlite3.connect(DB_PATH)
Connect ==
    /\ pc = "connect"
    /\ conn' = disk
    /\ pc' = "choose"
    /\ UNCHANGED <<body_sim, patchVars, disk, disk0, backup, writes, commits,
                   prisoner_id, prisoner, attr, rowcount, skills_done, err, failedAt>>

\* prisoner_id = choose_prisoner(con): int(input(...)) of a typed id, or
\* ValueError for a line that is no integer
ChoosePrisoner ==
    /\ pc = "choose"
    /\ \/ /\ \E id \in InputIds : prisoner_id' = id
          /\ pc' = "load"
          /\ UNCHANGED <<err, failedAt>>
       \/ /\ Raise("ValueError")
          /\ UNCHANGED prisoner_id
    /\ UNCHANGED <<body_sim, patchVars, disk, disk0, conn, backup, writes, commits,
                   prisoner, attr, rowcount, skills_done>>

\* prisoner = load_prisoner(con, prisoner_id)
\* body_sim = bytearray(prisoner["body_simulation"])
LoadPrisoner ==
    /\ pc = "load"
    /\ LET r == load_prisoner(conn, prisoner_id)
       IN  IF r.outcome = "ok"
           THEN /\ prisoner' = r.result
                /\ body_sim' = r.result.body_simulation
                /\ pc' = "patch"
                /\ UNCHANGED <<err, failedAt>>
           ELSE /\ Raise(r.outcome)
                /\ UNCHANGED <<prisoner, body_sim>>
    /\ UNCHANGED <<patchVars, disk, disk0, conn, backup, writes, commits,
                   prisoner_id, attr, rowcount, skills_done>>

\* one round of the loop over SET_ATTRIBUTES.items()
PatchAttribute ==
    /\ pc = "patch"
    /\ LET a == SET_ATTRIBUTES[attr]
           r == update_body_sim(body_sim, a.key, a.value, DoubleProperty)
       IN  IF r.outcome = "ok"
           THEN /\ body_sim' = r.body_sim
                /\ attr' = attr + 1
                /\ pc' = IF attr = Len(SET_ATTRIBUTES) THEN "save" ELSE "patch"
                /\ UNCHANGED <<err, failedAt>>
           ELSE /\ Raise(r.outcome)
                /\ UNCHANGED <<body_sim, attr>>
    /\ UNCHANGED <<patchVars, disk, disk0, conn, backup, writes, commits,
                   prisoner_id, prisoner, rowcount, skills_done>>

SavePrisoner_Autocommit ==
    /\ pc = "save"
    /\ prisoner' = [prisoner EXCEPT !.body_simulation = body_sim]
    /\ LET r == save_prisoner(conn, prisoner')
       IN  /\ conn' = r.con
           /\ disk' = r.con
           /\ rowcount' = r.rowcount
    /\ writes' = Append(writes, "UPDATE prisoner")
    /\ pc' = "skills"
    /\ UNCHANGED <<body_sim, patchVars, disk0, backup, commits, prisoner_id,
                   attr, skills_done, err, failedAt>>

\* prisoner["body_simulation"] = bytes(body_sim); save_prisoner(con, prisoner):
\* the statement runs in the open transaction, or the engine refuses it
\* (sqlite3.OperationalError, the file being locked by the game)
SavePrisoner ==
    /\ pc = "save"
    /\ prisoner' = [prisoner EXCEPT !.body_simulation = body_sim]
    /\ \/ /\ LET r == save_prisoner(conn, prisoner')
             IN  /\ conn' = r.con
                 /\ rowcount' = r.rowcount
          /\ writes' = Append(writes, "UPDATE prisoner")
          /\ pc' = "skills"
          /\ UNCHANGED <<err, failedAt>>
       \/ /\ Raise("OperationalError")
          /\ UNCHANGED <<conn, rowcount, writes>>
    /\ UNCHANGED <<body_sim, patchVars, disk, disk0, backup, commits, prisoner_id,
                   attr, skills_done>>

\* the UPDATE statements update_skills issues for the selected names
SkillWrites(names) ==
    [i \in 1..Len(SelectSeq(names, LAMBDA n : n \in DOMAIN SET_SKILLS)) |->
        "UPDATE prisoner_skill"]

\* update_skills(con, prisoner): the whole loop, or the loop up to a
\* statement the engine refuses
UpdateSkills ==
    /\ pc = "skills"
    /\ \/ /\ conn' = update_skills(conn, prisoner, SkillOrder)
          /\ writes' = writes \o SkillWrites(SelectSkillNames(conn, prisoner.id, SkillOrder))
          /\ skills_done' = TRUE
          /\ pc' = "commit"
          /\ UNCHANGED <<err, failedAt>>
       \/ /\ \E n \in 0..Len(SelectSkillNames(conn, prisoner.id, SkillOrder)) :
                LET part == SubSeq(SelectSkillNames(conn, prisoner.id, SkillOrder), 1, n)
                IN  /\ conn' = UpdateSkillsLoop(conn, prisoner.id, part)
                    /\ writes' = writes \o SkillWrites(part)
          /\ Raise("OperationalError")
          /\ UNCHANGED skills_done
    /\ UNCHANGED <<body_sim, patchVars, disk, disk0, backup, commits, prisoner_id,
                   prisoner, attr, rowcount>>

\* con.commit()
Commit ==
    /\ pc = "commit"
    /\ disk' = conn
    /\ commits' = commits + 1
    /\ writes' = Append(writes, "COMMIT")
    /\ pc' = "final"
    /\ UNCHANGED <<body_sim, patchVars, disk0, conn, backup, prisoner_id, prisoner,
                   attr, rowcount, skills_done, err, failedAt>>

\* input("All done! Press enter to exit.")
Finish ==
    /\ pc = "final"
    /\ pc' = "done"
    /\ UNCHANGED <<body_sim, patchVars, disk, disk0, conn, backup, writes, commits,
                   prisoner_id, prisoner, attr, rowcount, skills_done, err, failedAt>>

\* Ctrl-C while main runs: KeyboardInterrupt, caught under __main__
Interrupt ==
    /\ pc \in {"backup", "connect", "choose", "load", "patch", "save", "skills",
               "commit", "final"}
    /\ Raise("KeyboardInterrupt")
    /\ UNCHANGED <<body_sim, patchVars, disk, disk0, conn, backup, writes, commits,
                   prisoner_id, prisoner, attr, rowcount, skills_done>>

Next ==
    \/ BackupDatabase
    \/ Connect
    \/ ChoosePrisoner
    \/ LoadPrisoner
    \/ PatchAttribute
    \/ SavePrisoner
    \/ UpdateSkills
    \/ Commit
    \/ Finish
    \/ Interrupt

Spec == Init /\ [][Next]_vars

----------------------------------------------------------------------------
(* Properties of the run of main, under Spec *)

\* C5: update_skills sets every row of the prisoner whose name SET_SKILLS
\* configures to the configured (level, experience), keeps every other row
\* (other names, other prisoners), and neither creates nor deletes a row.
C5_SkillsUpdatedInPlace ==
    [][(pc = "skills" /\ pc' = "commit") =>
          \A p \in PrisonerIds, n \in SkillNames :
              LET old == conn.prisoner_skill[<<p, n>>]
                  new == conn'.prisoner_skill[<<p, n>>]
              IN  /\ (old = NoRow) <=> (new = NoRow)
                  /\ (p = prisoner.id /\ n \in ConfiguredSkills /\ old # NoRow)
                        => new = <<3, 10000000>>
                  /\ (p # prisoner.id \/ n \notin ConfiguredSkills) => new = old
      ]_vars

\* update_skills has run for prisoner 1, who had a configured row, an
\* unconfigured row and no row for another configured name, while
\* prisoner 2 had a row of the configured name
C5_Witness ==
    /\ pc = "commit"
    /\ prisoner.id = 1
    /\ conn.prisoner_skill[<<1, "BoxingSkill">>] = <<3, 10000000>>
    /\ conn.prisoner_skill[<<1, "AwarenessSkill">>] = NoRow
    /\ conn.prisoner_skill[<<1, "UnlistedSkill">>] = <<1, 100>>
    /\ conn.prisoner_skill[<<2, "BoxingSkill">>] = <<1, 100>>

\* C6: no write (the UPDATE of the blob, a skill UPDATE, the commit) is
\* issued before the backup copy is complete, and none at all in a run whose
\* backup copy failed.
C6_BackupBeforeWrites ==
    /\ (writes # <<>> \/ commits > 0 \/ disk # disk0) => backup = "done"
    /\ backup = "failed" => (writes = <<>> /\ commits = 0 /\ disk = disk0)

C6_Witness ==
    /\ pc = "done"
    /\ backup = "done"
    /\ Len(writes) >= 3
    /\ writes[Len(writes)] = "COMMIT"
    /\ disk # disk0

\* C8: the transaction is committed at most once, only after every
\* attribute patch, the blob write and the skill updates; a run that stops at
\* an earlier step commits nothing and leaves the committed database as it
\* was at the start.
C8_CommitOnceAtEnd ==
    /\ commits <= 1
    /\ commits = 1 =>
          /\ attr = Len(SET_ATTRIBUTES) + 1
          /\ Len(writes) >= 2 /\ writes[1] = "UPDATE prisoner"
          /\ skills_done
          /\ writes[Len(writes)] = "COMMIT"
    /\ commits = 0 => disk = disk0
    /\ (pc = "failed" /\ failedAt \notin {"final"}) => (commits = 0 /\ disk = disk0)

\* a run stopped inside update_skills with the blob write and a skill update
\* pending in its transaction
C8_Witness ==
    /\ pc = "failed"
    /\ failedAt = "skills"
    /\ Len(writes) >= 2
    /\ conn # disk
    /\ commits = 0

\* C10: load_prisoner for an id of no record fails with NotFoundError, and
\* the run stops before any attribute patch or database write.
C10_NotFoundError ==
    (/\ pc \notin {"backup", "connect", "choose", "load"}
     /\ failedAt \notin {"backup", "connect", "choose"}
     /\ prisoner_id \notin DOMAIN disk0.prisoner
     /\ err # "KeyboardInterrupt") =>
        /\ pc = "failed" /\ failedAt = "load"
        /\ err = "NotFoundError"
        /\ attr = 1 /\ writes = <<>> /\ disk = disk0

----------------------------------------------------------------------------
(* One call of save_prisoner on any database and any prisoner dict *)

InitSave ==
    /\ PatchIdle
    /\ body_sim = <<>>
    /\ pc = "idle"
    /\ disk \in Databases
    /\ disk0 = disk
    /\ conn = disk
    /\ backup = "none" /\ writes = <<>> /\ commits = 0
    /\ prisoner_id = 0
    /\ prisoner \in [id : InputIds, body_simulation : {GoodBlob, TruncatedBlob}]
    /\ attr = 1 /\ rowcount = -1 /\ skills_done = FALSE
    /\ err = "" /\ failedAt = ""

CallSavePrisoner ==
    /\ pc = "idle"
    /\ LET r == save_prisoner(conn, prisoner)
       IN  /\ conn' = r.con
           /\ rowcount' = r.rowcount
           /\ err' = IF r.outcome = "ok" THEN "" ELSE r.outcome
    /\ pc' = "returned"
    /\ UNCHANGED <<body_sim, patchVars, disk, disk0, backup, writes, commits,
                   prisoner_id, prisoner, attr, skills_done, failedAt>>

NextSave == CallSavePrisoner

SpecSave == InitSave /\ [][NextSave]_vars

\* C7: save_prisoner returns the number of rows the blob write affected and
\* signals UpdateFailed when that number is zero.
C7_UpdateFailedOnZeroRows ==
    pc = "returned" =>
        /\ rowcount = Cardinality({i \in DOMAIN disk.prisoner : i = prisoner.id})
        /\ rowcount = 0 => err = "UpdateFailed"

====
